---- MODULE Spec2Model ----
(***************************************************************************)
(* Stay-session segmentation of the smart-speaker conversation export      *)
(* (src/export_manager.py, class ExportManager).                           *)
(*                                                                         *)
(* Civil datetimes are counted in whole hours: a datetime is               *)
(* date * HoursPerDay + hour, a time-of-day is an hour 0..23.  Hotel and   *)
(* room names are natural numbers ordered as the names are ordered.        *)
(* A row of the DataFrame is [hotel, room, ts]; ts = NaT is the            *)
(* unparseable marker pd.NaT left by DataProcessor._parse_timestamp.       *)
(***************************************************************************)
EXTENDS Integers, Sequences, FiniteSets, TLC

\* ---- bounds of the model ----
MaxRecords == 3          \* rows in one batch

\* ---- program constants ----
HoursPerDay == 24
NaT == -1

MERGE == "merge_into_next"
SEPARATE == "separate_gap_session"
EXCLUDE == "exclude"
Modes == {MERGE, SEPARATE, EXCLUDE}

\* ---- input sets ----
Hotels == {1}
Rooms == {101, 102}
Dates == {1, 2}          \* 1 = 2024-01-10, 2 = 2024-01-11 (0 = 2024-01-09)
RecordHours == {10, 11, 13, 14, 15}
CheckTimes == {11, 14}

Combine(d, h) == d * HoursPerDay + h
Date(t) == t \div HoursPerDay
TimeOf(t) == t % HoursPerDay

Stamps == {Combine(d, h) : d \in Dates, h \in RecordHours} \cup {NaT}
Rows == [hotel : Hotels, room : Rooms, ts : Stamps]
Batches == UNION {[1..n -> Rows] : n \in 0..MaxRecords}

VARIABLES pc, df_sorted, checkin_time, checkout_time, gap_period_mode,
          pos, group, sessions, room_sessions, current_session,
          current_conversations, is_gap

\* The variables of the segmentation (ExportManager).
segVars == <<pc, df_sorted, checkin_time, checkout_time, gap_period_mode,
             pos, group, sessions, room_sessions, current_session,
             current_conversations, is_gap>>

\* The timestamp normalizer (DataProcessor._parse_timestamp): the raw input,
\* the position in the function, the parse attempts made so far, the result.
VARIABLES raw, ppc, attempts, parsed

normVars == <<raw, ppc, attempts, parsed>>

\* Reprojection of the stored record set (DataProcessor.convert_timezone):
\* self.df, the value returned by the last call, its arguments (<<>> before
\* the first call) and whether its except branch ran.
VARIABLES self_df, returned, tz_args, tz_failed

tzVars == <<self_df, returned, tz_args, tz_failed>>

\* Conversion of one timestamp (_convert_single_timestamp_with_override):
\* the input, the zones and mode, the result, and the result of a second
\* conversion applied to that result.  fold_dst tells how the installed
\* pytz/pandas pair reads a civil hour that the fall-back transition repeats:
\* as daylight time (TRUE) or as standard time (FALSE).
VARIABLES cv_stage, cv_t, cv_src, cv_tgt, cv_mode, cv_out, cv_again, cv_out2,
          fold_dst

convVars == <<cv_stage, cv_t, cv_src, cv_tgt, cv_mode, cv_out, cv_again, cv_out2,
              fold_dst>>

\* Alarm-entity extraction (ExportManager._extract_alarm_time): the
\* conversation row, the position in the function, the value being decoded
\* and what the function hands back.
VARIABLES conv, apc, data_json, alarm_time_info

alarmVars == <<conv, apc, data_json, alarm_time_info>>

\* Report rendering (ExportManager.generate_export_text): the session lists
\* of the partitions, the number of calls made, the list handed to the last
\* call, the report it gave and the report of the call before.
VARIABLES partition_sessions, calls, sessions_arg, report, first_report

reportVars == <<partition_sessions, calls, sessions_arg, report, first_report>>

\* What the call of segment_by_stay_sessions before the current one was
\* given and what it returned (kind "none": there was no such call).
VARIABLES prev

runVars == <<prev>>

\* The export tab of the dashboard: the inputs of the page (check-in and
\* check-out time, room filter), the timezone of the export in hand, the
\* number of exports made, and what the export before this one grouped.
VARIABLES ui, selected_timezone, clicks, last_export

exportVars == <<ui, selected_timezone, clicks, last_export>>

vars == <<segVars, normVars, tzVars, convVars, alarmVars, reportVars, runVars, exportVars>>

\* What the steps of one component leave alone.
nonSegVars == <<normVars, tzVars, convVars, alarmVars, reportVars, runVars, exportVars>>
nonNormVars == <<segVars, tzVars, convVars, alarmVars, reportVars, runVars, exportVars>>
nonTzVars == <<segVars, normVars, convVars, alarmVars, reportVars, runVars, exportVars>>
nonConvVars == <<segVars, normVars, tzVars, alarmVars, reportVars, runVars, exportVars>>
nonAlarmVars == <<segVars, normVars, tzVars, convVars, reportVars, runVars, exportVars>>
nonReportVars == <<segVars, normVars, tzVars, convVars, alarmVars, runVars, exportVars>>

\* ---- DataFrame.sort_values(["hotel_name", "room_name", "request_timestamp"]) ----
\* Lexicographic row order; NaT sorts after every timestamp (na_position = "last").
RowLeq(a, b) ==
    IF a.hotel # b.hotel THEN a.hotel < b.hotel
    ELSE IF a.room # b.room THEN a.room < b.room
    ELSE IF b.ts = NaT THEN TRUE
    ELSE IF a.ts = NaT THEN FALSE
    ELSE a.ts <= b.ts

RECURSIVE InsertRow(_, _)
InsertRow(s, r) ==
    IF s = <<>> THEN <<r>>
    ELSE IF RowLeq(s[Len(s)], r) THEN Append(s, r)
    ELSE Append(InsertRow(SubSeq(s, 1, Len(s) - 1), r), s[Len(s)])

\* The batch left in the order it was handed in.
sort_values_unsorted(df) == df

RECURSIVE sort_values(_)
sort_values(df) ==
    IF df = <<>> THEN <<>>
    ELSE InsertRow(sort_values(SubSeq(df, 1, Len(df) - 1)), df[Len(df)])

\* ---- ExportManager helpers ----

\* Variant: the gap-period branch (line 230) is missing.
create_session_boundaries_no_gap_branch(timestamp, checkin, checkout) ==
    LET conversation_time == TimeOf(timestamp)
        checkin_date ==
            IF conversation_time >= checkin THEN Date(timestamp)
            ELSE Date(timestamp) - 1
        checkout_datetime ==
            IF checkout <= checkin THEN Combine(checkin_date + 1, checkout)
            ELSE Combine(checkin_date, checkout)
    IN [start |-> Combine(checkin_date, checkin), end |-> checkout_datetime]

\* Variant: the check-out is always put on the check-in date.
create_session_boundaries_end_same_day(timestamp, checkin, checkout) ==
    LET conversation_time == TimeOf(timestamp)
        checkin_date ==
            IF conversation_time >= checkin THEN Date(timestamp)
            ELSE IF checkout <= checkin /\ conversation_time > checkout
                 THEN Date(timestamp)
            ELSE Date(timestamp) - 1
    IN [start |-> Combine(checkin_date, checkin),
        end |-> Combine(checkin_date, checkout)]

\* Variant: line 241 tests checkout < checkin instead of checkout <= checkin.
create_session_boundaries_strict_wrap(timestamp, checkin, checkout) ==
    LET conversation_time == TimeOf(timestamp)
        checkin_date ==
            IF conversation_time >= checkin THEN Date(timestamp)
            ELSE IF checkout <= checkin /\ conversation_time > checkout
                 THEN Date(timestamp)
            ELSE Date(timestamp) - 1
        checkout_datetime ==
            IF checkout < checkin THEN Combine(checkin_date + 1, checkout)
            ELSE Combine(checkin_date, checkout)
    IN [start |-> Combine(checkin_date, checkin), end |-> checkout_datetime]

create_session_boundaries(timestamp, checkin, checkout) ==
    LET conversation_time == TimeOf(timestamp)
        checkin_date ==
            IF conversation_time >= checkin THEN Date(timestamp)
            ELSE IF checkout <= checkin /\ conversation_time > checkout
                 THEN Date(timestamp)
            ELSE Date(timestamp) - 1
        checkout_datetime ==
            IF checkout <= checkin THEN Combine(checkin_date + 1, checkout)
            ELSE Combine(checkin_date, checkout)
    IN [start |-> Combine(checkin_date, checkin), end |-> checkout_datetime]

is_in_session(timestamp, session) ==
    session.start <= timestamp /\ timestamp < session.end

\* Variant: the gap window is open at the check-out time.
is_gap_period_open_at_checkout(timestamp, checkin, checkout) ==
    LET conversation_time == TimeOf(timestamp)
    IN IF checkout < checkin
       THEN checkout < conversation_time /\ conversation_time < checkin
       ELSE FALSE

is_gap_period(timestamp, checkin, checkout) ==
    LET conversation_time == TimeOf(timestamp)
    IN IF checkout < checkin
       THEN checkout <= conversation_time /\ conversation_time < checkin
       ELSE FALSE

\* Variant: the gap ends at the check-in of the following date.
get_gap_period_boundaries_next_day(timestamp, checkin, checkout) ==
    <<Combine(Date(timestamp), checkout), Combine(Date(timestamp) + 1, checkin)>>

get_gap_period_boundaries(timestamp, checkin, checkout) ==
    <<Combine(Date(timestamp), checkout), Combine(Date(timestamp), checkin)>>

\* A session dictionary.  The sequential loop leaves "is_gap_period" out;
\* readers use session.get("is_gap_period", False), which is FALSE here.
\* conversations holds positions of rows in df_sorted.
SessionDict(hotel, room, start, end, convs, gap) ==
    [hotel |-> hotel, room |-> room, start_time |-> start, end_time |-> end,
     conversations |-> convs, is_gap_period |-> gap]

\* "Save current session" (lines 119-128): the open session is appended to
\* the room's list when it has conversations.
close_session(ss, session, convs, hotel, room) ==
    IF convs # <<>>
    THEN Append(ss, SessionDict(hotel, room, session.start, session.end,
                                convs, FALSE))
    ELSE ss

\* "Don't forget the last session" (lines 137-146); open is <<>> when no
\* session was opened, and then convs is empty.
flush_last_session_forgotten(ss, open, convs, hotel, room) == ss

flush_last_session(ss, open, convs, hotel, room) ==
    IF convs # <<>>
    THEN Append(ss, SessionDict(hotel, room, open[1].start, open[1].end,
                                convs, FALSE))
    ELSE ss

InGroup(i) ==
    /\ i <= Len(df_sorted)
    /\ df_sorted[i].hotel = group.hotel
    /\ df_sorted[i].room = group.room

NoGroup == [hotel |-> 0, room |-> 0]

\* ---- DataProcessor._parse_timestamp: inputs ----
\* The formats tried by pd.to_datetime; Infer is the call without a format
\* (infer_datetime_format = True).
VendorFrac == "%b %d, %Y %H:%M:%S.%f"
Vendor == "%b %d, %Y %H:%M:%S"
IsoFrac == "%Y-%m-%d %H:%M:%S.%f"
Iso == "%Y-%m-%d %H:%M:%S"
IsoDate == "%Y-%m-%d"
Infer == "infer"
Formats == {VendorFrac, Vendor, IsoFrac, Iso, IsoDate, Infer}

\* pd.to_datetime raising ValueError or TypeError.
ParseError == -2

\* What one attempt can give: an error, an instant at midnight, another instant.
ParseResults == {ParseError, Combine(0, 0), Combine(0, 12)}

\* Variant: the generic inference is tried first.
fallback_chain_infer_first(has_at) ==
    IF has_at THEN <<Infer, VendorFrac, Vendor>>
    ELSE <<Infer, IsoFrac, Iso, IsoDate>>

\* The attempts in the order of the source: lines 134-152 for a string with
\* "@", lines 155-181 for one without.
fallback_chain(has_at) ==
    IF has_at THEN <<VendorFrac, Vendor, Infer>>
    ELSE <<IsoFrac, Iso, IsoDate, Infer>>

InChain(has_at, f) ==
    \E k \in 1..Len(fallback_chain(has_at)) : fallback_chain(has_at)[k] = f

\* A raw cell.  kind "null" is NaN/None; kind "blank" is a string that is
\* empty after strip() (pd.to_datetime gives NaT for it without raising);
\* kind "text" is any other string, described by whether it holds "@" and by
\* what each format of its chain gives for the cleaned string.
NoOut == [f \in Formats |-> ParseError]
NoRaw == [kind |-> "none", has_at |-> FALSE, out |-> NoOut]
RawInputs ==
    {[kind |-> "null", has_at |-> FALSE, out |-> NoOut],
     [kind |-> "blank", has_at |-> FALSE, out |-> NoOut]}
    \cup UNION {{[kind |-> "text", has_at |-> a, out |-> o] :
                     o \in {q \in [Formats -> ParseResults] :
                               \A f \in Formats :
                                  q[f] # ParseError => InChain(a, f)}} :
                  a \in BOOLEAN}

\* The parts of the state a specification does not exercise stay as they are
\* before any call.
NormOff ==
    /\ raw = NoRaw
    /\ ppc = "off"
    /\ attempts = <<>>
    /\ parsed = NaT

\* A DataFrame-or-None value: None, or the rows of a frame.
NoneFrame == [none |-> TRUE, rows |-> <<>>]
Frame(rows) == [none |-> FALSE, rows |-> rows]

TzOff ==
    /\ self_df = NoneFrame
    /\ returned = NoneFrame
    /\ tz_args = <<>>
    /\ tz_failed = FALSE

ConvIdle ==
    /\ cv_stage = "off"
    /\ cv_t = NaT
    /\ cv_src = "UTC"
    /\ cv_tgt = "UTC"
    /\ cv_mode = "auto"
    /\ cv_out = NaT
    /\ cv_again = "none"
    /\ cv_out2 = NaT

ConvOff ==
    /\ ConvIdle
    /\ fold_dst = FALSE

\* A cell value: None/NaN, a string, or something that is neither (a number).
NoneValue == [t |-> "none", s |-> ""]
Str(text) == [t |-> "str", s |-> text]
Number == [t |-> "num", s |-> "9"]

\* No conversation row in hand.
NoConv ==
    [intent |-> NoneValue, form |-> "missing", top |-> "scalar", len |-> 0,
     first |-> "scalar", uni |-> "missing", start |-> NoneValue,
     end |-> NoneValue]

AlarmOff ==
    /\ conv = NoConv
    /\ apc = "off"
    /\ data_json = "none"
    /\ alarm_time_info = ""

\* No earlier call of segment_by_stay_sessions.
NoPrev == [kind |-> "none", mode |-> MERGE, content |-> <<>>]

RunOff == prev = NoPrev

\* The export tab before any export.
NoUi == [checkin_time |-> 0, checkout_time |-> 0, room_names |-> {}]
NoExport == [zone |-> "none", groups |-> {}]

ExportOff ==
    /\ ui = NoUi
    /\ selected_timezone = "Asia/Taipei"
    /\ clicks = 0
    /\ last_export = NoExport

\* No report generated yet.
NoReport == [count |-> 0, blocks |-> <<>>]

ReportOff ==
    /\ partition_sessions = <<>>
    /\ calls = 0
    /\ sessions_arg = <<>>
    /\ report = NoReport
    /\ first_report = NoReport

\* The components modelled after the timezone conversion, before any call.
LaterOff == AlarmOff /\ ReportOff /\ RunOff /\ ExportOff

SegOff ==
    /\ pc = "idle"
    /\ df_sorted = <<>>
    /\ checkin_time = 0
    /\ checkout_time = 0
    /\ gap_period_mode = MERGE
    /\ pos = 1
    /\ group = NoGroup
    /\ sessions = <<>>
    /\ room_sessions = <<>>
    /\ current_session = <<>>
    /\ current_conversations = <<>>
    /\ is_gap = FALSE

Init ==
    /\ SegOff
    /\ NormOff
    /\ TzOff
    /\ ConvOff
    /\ LaterOff

\* segment_by_stay_sessions, lines 39-51: empty batch returns [], otherwise
\* the times are parsed and the batch is sorted.
Call ==
    /\ pc = "idle"
    /\ \E df \in Batches :
          /\ IF df = <<>>
             THEN /\ pc' = "done"
                  /\ df_sorted' = <<>>
             ELSE /\ pc' = "groupby"
                  /\ df_sorted' = sort_values(df)
          /\ \E ci \in CheckTimes, co \in CheckTimes, mode \in Modes :
                /\ checkin_time' = ci
                /\ checkout_time' = co
                /\ gap_period_mode' = mode
    /\ UNCHANGED <<pos, group, sessions, room_sessions, current_session,
                   current_conversations, is_gap>>
    /\ UNCHANGED nonSegVars

\* Variant: the open session of the group before is kept.
NextGroup_keep_open ==
    /\ pc = "groupby"
    /\ pos <= Len(df_sorted)
    /\ group' = [hotel |-> df_sorted[pos].hotel, room |-> df_sorted[pos].room]
    /\ room_sessions' = <<>>
    /\ pc' = IF gap_period_mode = SEPARATE THEN "sep_rows" ELSE "rows"
    /\ UNCHANGED <<df_sorted, checkin_time, checkout_time, gap_period_mode,
                   pos, sessions, is_gap, current_session,
                   current_conversations>>
    /\ UNCHANGED nonSegVars

\* Next (hotel, room) group of the groupby loop; entry of
\* _segment_room_conversations (dispatch on the mode, fresh locals).
NextGroup ==
    /\ pc = "groupby"
    /\ pos <= Len(df_sorted)
    /\ group' = [hotel |-> df_sorted[pos].hotel, room |-> df_sorted[pos].room]
    /\ room_sessions' = <<>>
    /\ current_session' = <<>>
    /\ current_conversations' = <<>>
    /\ pc' = IF gap_period_mode = SEPARATE THEN "sep_rows" ELSE "rows"
    /\ UNCHANGED <<df_sorted, checkin_time, checkout_time, gap_period_mode,
                   pos, sessions, is_gap>>
    /\ UNCHANGED nonSegVars

\* One iteration of the loop of _segment_room_conversations (modes 1 and 3).
RowStep ==
    /\ pc = "rows"
    /\ InGroup(pos)
    /\ df_sorted[pos].ts # NaT
    /\ LET timestamp == df_sorted[pos].ts
           gap == is_gap_period(timestamp, checkin_time, checkout_time)
       IN /\ is_gap' = gap
          /\ IF gap_period_mode = EXCLUDE /\ gap
             THEN UNCHANGED <<room_sessions, current_session,
                              current_conversations>>
             ELSE IF current_session = <<>>
             THEN /\ current_session' =
                        <<create_session_boundaries(timestamp, checkin_time,
                                                    checkout_time)>>
                  /\ current_conversations' = <<pos>>
                  /\ UNCHANGED room_sessions
             ELSE IF is_in_session(timestamp, current_session[1])
             THEN /\ current_conversations' = Append(current_conversations, pos)
                  /\ UNCHANGED <<room_sessions, current_session>>
             ELSE /\ room_sessions' =
                        close_session(room_sessions, current_session[1],
                                      current_conversations, group.hotel,
                                      group.room)
                  /\ current_session' =
                        <<create_session_boundaries(timestamp, checkin_time,
                                                    checkout_time)>>
                  /\ current_conversations' = <<pos>>
    /\ pos' = pos + 1
    /\ UNCHANGED <<pc, df_sorted, checkin_time, checkout_time, gap_period_mode,
                   group, sessions>>
    /\ UNCHANGED nonSegVars

\* End of the loop: flush the open session, return, sessions.extend(...).
RoomFlush ==
    /\ pc = "rows"
    /\ ~InGroup(pos)
    /\ LET flushed == flush_last_session(room_sessions, current_session,
                                         current_conversations, group.hotel,
                                         group.room)
       IN /\ room_sessions' = flushed
          /\ sessions' = sessions \o flushed
    /\ pc' = "groupby"
    /\ UNCHANGED <<df_sorted, checkin_time, checkout_time, gap_period_mode,
                   pos, group, current_session, current_conversations, is_gap>>
    /\ UNCHANGED nonSegVars

\* Variant: the lookup never finds a session.
FindSession_never(ss, key, k) == 0

\* Position of the first session of ss with the given key, 0 if none
\* (the "find or create" loop, lines 191-196).
RECURSIVE FindSession(_, _, _)
FindSession(ss, key, k) ==
    IF k > Len(ss) THEN 0
    ELSE IF <<ss[k].start_time, ss[k].end_time, ss[k].is_gap_period>> = key
    THEN k
    ELSE FindSession(ss, key, k + 1)

\* One iteration of the loop of _segment_with_separate_gaps.
SepRowStep ==
    /\ pc = "sep_rows"
    /\ InGroup(pos)
    /\ df_sorted[pos].ts # NaT
    /\ LET timestamp == df_sorted[pos].ts
           gap == is_gap_period(timestamp, checkin_time, checkout_time)
           gap_bounds == get_gap_period_boundaries(timestamp, checkin_time,
                                                   checkout_time)
           session_bounds == create_session_boundaries(timestamp, checkin_time,
                                                       checkout_time)
           session_key == IF gap THEN <<gap_bounds[1], gap_bounds[2], TRUE>>
                          ELSE <<session_bounds.start, session_bounds.end, FALSE>>
           k == FindSession(room_sessions, session_key, 1)
       IN /\ is_gap' = gap
          /\ room_sessions' =
                IF k # 0
                THEN [room_sessions EXCEPT
                        ![k].conversations = Append(@, pos)]
                ELSE Append(room_sessions,
                            SessionDict(group.hotel, group.room, session_key[1],
                                        session_key[2], <<pos>>, session_key[3]))
    /\ pos' = pos + 1
    /\ UNCHANGED <<pc, df_sorted, checkin_time, checkout_time, gap_period_mode,
                   group, sessions, current_session, current_conversations>>
    /\ UNCHANGED nonSegVars

\* _segment_with_separate_gaps returns; sessions.extend(room_sessions).
SepReturn ==
    /\ pc = "sep_rows"
    /\ ~InGroup(pos)
    /\ sessions' = sessions \o room_sessions
    /\ pc' = "groupby"
    /\ UNCHANGED <<df_sorted, checkin_time, checkout_time, gap_period_mode,
                   pos, group, room_sessions, current_session,
                   current_conversations, is_gap>>
    /\ UNCHANGED nonSegVars

\* timestamp.time() on pd.NaT raises ValueError in _is_gap_period; nothing
\* catches it inside the export manager, so the call is aborted.
RowRaise ==
    /\ pc \in {"rows", "sep_rows"}
    /\ InGroup(pos)
    /\ df_sorted[pos].ts = NaT
    /\ pc' = "raised"
    /\ UNCHANGED <<df_sorted, checkin_time, checkout_time, gap_period_mode,
                   pos, group, sessions, room_sessions, current_session,
                   current_conversations, is_gap>>
    /\ UNCHANGED nonSegVars

\* The groupby loop is exhausted: return sessions.
Return ==
    /\ pc = "groupby"
    /\ pos > Len(df_sorted)
    /\ pc' = "done"
    /\ UNCHANGED <<df_sorted, checkin_time, checkout_time, gap_period_mode,
                   pos, group, sessions, room_sessions, current_session,
                   current_conversations, is_gap>>
    /\ UNCHANGED nonSegVars

Next ==
    \/ Call
    \/ NextGroup
    \/ RowStep
    \/ RoomFlush
    \/ SepRowStep
    \/ SepReturn
    \/ RowRaise
    \/ Return

Spec == Init /\ [][Next]_vars

TypeOK ==
    /\ pc \in {"idle", "groupby", "rows", "sep_rows", "done", "raised"}
    /\ pos \in 1..(MaxRecords + 1)
    /\ Len(df_sorted) <= MaxRecords

(***************************************************************************)
(* Properties of the segmentation.                                         *)
(***************************************************************************)
Returned == pc = "done"

SamePartition(a, b) == a.hotel = b.hotel /\ a.room = b.room

SessionIds == 1..Len(sessions)
RowIds == 1..Len(df_sorted)

\* Number of (session, slot) places of the output that hold row i.
Places(i) ==
    Cardinality({km \in {<<k, m>> : k \in SessionIds, m \in 1..MaxRecords + 1} :
                    /\ km[2] <= Len(sessions[km[1]].conversations)
                    /\ sessions[km[1]].conversations[km[2]] = i})

\* The gap window as the specification words it.
InGapWindow(t) ==
    /\ checkout_time < checkin_time
    /\ checkout_time <= TimeOf(t)
    /\ TimeOf(t) < checkin_time

\* The start date of the specification's boundary rule (section 4.3).
RuleStartDate(t) ==
    IF TimeOf(t) >= checkin_time THEN Date(t)
    ELSE IF /\ checkout_time <= checkin_time
            /\ checkout_time <= TimeOf(t)
            /\ TimeOf(t) < checkin_time
            /\ gap_period_mode # SEPARATE
         THEN Date(t)
    ELSE Date(t) - 1

RuleEnd(startDate) ==
    IF checkout_time <= checkin_time THEN Combine(startDate + 1, checkout_time)
    ELSE Combine(startDate, checkout_time)

\* The three records of the scenarios, in room r of hotel h.
ScenarioRows(h, r) ==
    <<[hotel |-> h, room |-> r, ts |-> Combine(1, 13)],
      [hotel |-> h, room |-> r, ts |-> Combine(1, 15)],
      [hotel |-> h, room |-> r, ts |-> Combine(2, 10)]>>

IsScenario(mode) ==
    /\ Returned
    /\ checkin_time = 14
    /\ checkout_time = 11
    /\ gap_period_mode = mode
    /\ \E h \in Hotels, r \in Rooms : df_sorted = ScenarioRows(h, r)

\* C1: the sessions returned for one (hotel, room) partition are pairwise
\* non-overlapping: no two of them have intersecting [start, end) windows,
\* in particular no two have the same start and end.
C1_NonOverlapping ==
    Returned =>
        \A i \in SessionIds, j \in SessionIds :
            (i < j /\ SamePartition(sessions[i], sessions[j])) =>
                /\ ~(/\ sessions[i].start_time < sessions[j].end_time
                     /\ sessions[j].start_time < sessions[i].end_time)
                /\ ~(/\ sessions[i].start_time = sessions[j].start_time
                     /\ sessions[i].end_time = sessions[j].end_time)

\* C2: when segment has returned, every row with a parseable timestamp is in
\* exactly one place of the output under merge_into_next and
\* separate_gap_session; under exclude every non-gap row is in exactly one
\* place and every gap row in none.  The output holds nothing but input rows.
C2_ExactlyOnce ==
    Returned =>
        /\ \A i \in RowIds :
              df_sorted[i].ts # NaT =>
                 Places(i) = IF gap_period_mode = EXCLUDE
                                /\ InGapWindow(df_sorted[i].ts)
                             THEN 0 ELSE 1
        /\ \A k \in SessionIds :
              \A m \in 1..Len(sessions[k].conversations) :
                 sessions[k].conversations[m] \in RowIds

\* A returned exclude run with a dropped gap row and a kept row.
C2_Witness ==
    /\ Returned
    /\ gap_period_mode = EXCLUDE
    /\ Len(sessions) >= 1
    /\ \E i \in RowIds, j \in RowIds :
          /\ InGapWindow(df_sorted[i].ts) /\ Places(i) = 0
          /\ ~InGapWindow(df_sorted[j].ts) /\ Places(j) = 1

\* C3 (as claimed): records 01-10 13:00, 01-10 15:00, 01-11 10:00 with
\* check-in 14:00, check-out 11:00 and merge_into_next give two sessions,
\* [01-09 14:00, 01-10 11:00) with the 13:00 record and
\* [01-10 14:00, 01-11 11:00) with the other two.
C3_TwoSessionsClaimed ==
    IsScenario(MERGE) =>
        \E h \in Hotels, r \in Rooms :
            sessions =
               <<SessionDict(h, r, Combine(0, 14), Combine(1, 11), <<1>>, FALSE),
                 SessionDict(h, r, Combine(1, 14), Combine(2, 11), <<2, 3>>,
                             FALSE)>>

\* C3 (amended): the same input gives exactly one session,
\* [01-10 14:00, 01-11 11:00), holding all three records: the 13:00 gap
\* record is merged into the stay that starts at 14:00 of its own date.
C3_OneMergedSession ==
    IsScenario(MERGE) =>
        \E h \in Hotels, r \in Rooms :
            sessions =
               <<SessionDict(h, r, Combine(1, 14), Combine(2, 11), <<1, 2, 3>>,
                             FALSE)>>

C3_Witness == IsScenario(MERGE) /\ Len(sessions) = 1

\* C4: the same three records under separate_gap_session: the 13:00 record
\* is alone in a gap session [01-10 11:00, 01-10 14:00) with
\* is_gap_period = TRUE.
C4_GapSessionScenario ==
    IsScenario(SEPARATE) =>
        /\ Places(1) = 1
        /\ \E k \in SessionIds :
              /\ sessions[k].start_time = Combine(1, 11)
              /\ sessions[k].end_time = Combine(1, 14)
              /\ sessions[k].is_gap_period = TRUE
              /\ sessions[k].conversations = <<1>>

C4_Witness == IsScenario(SEPARATE) /\ Len(sessions) = 2

\* A session that starts at check-in time on a date D and ends at check-out
\* time on D + 1.
OvernightWindow(s) ==
    /\ TimeOf(s.start_time) = checkin_time
    /\ TimeOf(s.end_time) = checkout_time
    /\ Date(s.end_time) = Date(s.start_time) + 1

\* C5 (as claimed): with checkout < checkin, every returned session, under
\* every gap policy, starts at check-in time on some date D and ends at
\* check-out time on D + 1.
C5_EverySessionOvernight ==
    (Returned /\ checkout_time < checkin_time) =>
        \A k \in SessionIds : OvernightWindow(sessions[k])

\* C5 (amended): with checkout < checkin, every returned session that is not
\* a gap-period session starts at check-in time on some date D and ends at
\* check-out time on D + 1.
C5_StaySessionOvernight ==
    (Returned /\ checkout_time < checkin_time) =>
        \A k \in SessionIds :
            ~sessions[k].is_gap_period => OvernightWindow(sessions[k])

\* A returned separate_gap_session run with a stay session and a gap session.
C5_Witness ==
    /\ Returned
    /\ checkout_time < checkin_time
    /\ gap_period_mode = SEPARATE
    /\ \E i \in SessionIds, j \in SessionIds :
          sessions[i].is_gap_period /\ ~sessions[j].is_gap_period

\* C6: every returned session has start < end, whatever the order of
\* check-in and check-out (also when they are equal) and the gap policy.
C6_StartBeforeEnd ==
    Returned =>
        \A k \in SessionIds : sessions[k].start_time < sessions[k].end_time

\* A returned run with identical check-in and check-out times.
C6_Witness ==
    /\ Returned
    /\ checkin_time = checkout_time
    /\ Len(sessions) >= 1

\* C7: the session constructed from a timestamp t starts on the date the
\* boundary rule gives: date(t) if time-of-day(t) >= checkin; date(t) if
\* checkout <= checkin, checkout <= time-of-day(t) < checkin and the policy
\* is not separate; date(t) - 1 otherwise.  (A sequential session is
\* constructed from its first record, a keyed stay session from each of its
\* records.)
C7_StartDateRule ==
    Returned =>
        \A k \in SessionIds :
            ~sessions[k].is_gap_period =>
                \A m \in 1..Len(sessions[k].conversations) :
                    (m = 1 \/ gap_period_mode = SEPARATE) =>
                        sessions[k].start_time =
                            Combine(RuleStartDate(
                                       df_sorted[sessions[k].conversations[m]].ts),
                                    checkin_time)

\* C8: the row just examined is classified in the gap period if and only if
\* checkout < checkin and checkout <= time-of-day(t) < checkin; with
\* checkout >= checkin nothing is classified as gap.
C8_GapClassification ==
    (pc # "idle" /\ pos > 1) =>
        /\ is_gap = InGapWindow(df_sorted[pos - 1].ts)
        /\ checkout_time >= checkin_time => ~is_gap

\* A row stamped exactly at check-out time has just been classified as gap.
C8_Witness ==
    /\ pc # "idle"
    /\ pos > 1
    /\ is_gap
    /\ TimeOf(df_sorted[pos - 1].ts) = checkout_time

\* The key the specification gives a row under separate_gap_session.
RuleKey(t) ==
    IF InGapWindow(t)
    THEN <<Combine(Date(t), checkout_time), Combine(Date(t), checkin_time), TRUE>>
    ELSE <<Combine(RuleStartDate(t), checkin_time), RuleEnd(RuleStartDate(t)),
           FALSE>>

SessionKey(s) == <<s.start_time, s.end_time, s.is_gap_period>>

Together(i, j) ==
    \E k \in SessionIds :
        \E m \in 1..Len(sessions[k].conversations),
           n \in 1..Len(sessions[k].conversations) :
            /\ sessions[k].conversations[m] = i
            /\ sessions[k].conversations[n] = j

\* C9: under separate_gap_session every row is in the session whose
\* (start, end, is_gap_period) is the row's key, two rows of one partition
\* are in the same session if and only if their keys are equal, each key
\* occurs at most once per partition, and no session mixes gap and
\* non-gap rows.
C9_KeyedSessions ==
    (Returned /\ gap_period_mode = SEPARATE) =>
        /\ \A k \in SessionIds :
              \A m \in 1..Len(sessions[k].conversations) :
                 LET row == df_sorted[sessions[k].conversations[m]]
                 IN /\ SessionKey(sessions[k]) = RuleKey(row.ts)
                    /\ sessions[k].is_gap_period = InGapWindow(row.ts)
                    /\ SamePartition(sessions[k], row)
        /\ \A i \in RowIds, j \in RowIds :
              SamePartition(df_sorted[i], df_sorted[j]) =>
                 (Together(i, j) <=>
                     RuleKey(df_sorted[i].ts) = RuleKey(df_sorted[j].ts))
        /\ \A k \in SessionIds, l \in SessionIds :
              (k # l /\ SamePartition(sessions[k], sessions[l])) =>
                 SessionKey(sessions[k]) # SessionKey(sessions[l])

\* A returned keyed run in which a stay row, a gap row and a stay row follow
\* one another in one room and end up in three sessions.
C9_Witness ==
    /\ Returned
    /\ gap_period_mode = SEPARATE
    /\ \E i \in RowIds, j \in RowIds, l \in RowIds :
          /\ i < j /\ j < l
          /\ SamePartition(df_sorted[i], df_sorted[j])
          /\ SamePartition(df_sorted[j], df_sorted[l])
          /\ ~InGapWindow(df_sorted[i].ts)
          /\ InGapWindow(df_sorted[j].ts)
          /\ ~InGapWindow(df_sorted[l].ts)
          /\ Len(sessions) = 3

\* C10: a batch that holds a row with the unparseable marker is still
\* segmented: the call never aborts with an exception.
C10_NeverRaises == pc # "raised"

\* Timestamp of conversation m of session k.
ConvTs(k, m) == df_sorted[sessions[k].conversations[m]].ts

\* C24: in the order segment returns them, the sessions of one partition
\* have non-decreasing start, and the conversations of every session are in
\* non-decreasing timestamp order, under every gap policy and every
\* check-in/check-out pair.
C24_OrderedSessions ==
    Returned =>
        /\ \A i \in SessionIds, j \in SessionIds :
              (i < j /\ SamePartition(sessions[i], sessions[j])) =>
                 sessions[i].start_time <= sessions[j].start_time
        /\ \A k \in SessionIds :
              \A m \in 1..Len(sessions[k].conversations),
                 n \in 1..Len(sessions[k].conversations) :
                 m < n => ConvTs(k, m) <= ConvTs(k, n)

\* A returned run in which one room has two sessions, the first of them
\* with two conversations at different times.
C24_Witness ==
    /\ Returned
    /\ \E i \in SessionIds, j \in SessionIds :
          /\ i < j
          /\ SamePartition(sessions[i], sessions[j])
          /\ sessions[i].start_time < sessions[j].start_time
          /\ Len(sessions[i].conversations) = 2
          /\ ConvTs(i, 1) < ConvTs(i, 2)

\* C27 (as claimed): every conversation of a returned session has its
\* timestamp inside the session's window, start <= t < end, under every gap
\* policy and every check-in/check-out pair.
C27_ConversationsInsideWindow ==
    Returned =>
        \A k \in SessionIds :
            \A m \in 1..Len(sessions[k].conversations) :
                /\ sessions[k].start_time <= ConvTs(k, m)
                /\ ConvTs(k, m) < sessions[k].end_time

(***************************************************************************)
(* The timestamp normalizer, DataProcessor._parse_timestamp                *)
(* (src/data_processor.py).                                                *)
(***************************************************************************)

\* Variant: the null test is missing.
pd_isna_never(r) == FALSE

\* pd.isna(timestamp_str), line 128: true of NaN/None, false of every string
\* (the empty string included).
pd_isna(r) == r.kind = "null"

\* pd.to_datetime on the stripped (and, with "@", cleaned) string.  An empty
\* string gives NaT without raising, whatever the format.
to_datetime(r, fmt) == IF r.kind = "blank" THEN NaT ELSE r.out[fmt]

\* Attempt k of the chain is inside a try/except (ValueError, TypeError).
\* The inference call that ends the "@" branch, line 152, is in the handler
\* of the second attempt and is not.
guarded(has_at, k) == ~(has_at /\ k = 3)

NormInit ==
    /\ SegOff
    /\ TzOff
    /\ ConvOff
    /\ LaterOff
    /\ raw \in RawInputs
    /\ ppc = "isna"
    /\ attempts = <<>>
    /\ parsed = NaT

\* Lines 128-131: a null input returns NaT; anything else is stripped.
CheckNa ==
    /\ ppc = "isna"
    /\ IF pd_isna(raw)
       THEN /\ ppc' = "returned"
            /\ parsed' = NaT
       ELSE /\ ppc' = "try"
            /\ parsed' = parsed
    /\ UNCHANGED <<raw, attempts>>
    /\ UNCHANGED nonNormVars

\* One pd.to_datetime call of the chain: return on success, go on to the next
\* attempt on a caught error, propagate an error that nothing catches.
Attempt ==
    /\ ppc = "try"
    /\ LET chain == fallback_chain(raw.has_at)
           k == Len(attempts) + 1
           res == to_datetime(raw, chain[k])
       IN /\ attempts' = Append(attempts, chain[k])
          /\ IF res # ParseError
             THEN /\ ppc' = "returned"
                  /\ parsed' = res
             ELSE /\ parsed' = parsed
                  /\ ppc' = IF ~guarded(raw.has_at, k) THEN "raised"
                            ELSE IF k = Len(chain) THEN "exhausted"
                            ELSE "try"
    /\ UNCHANGED raw
    /\ UNCHANGED nonNormVars

\* Lines 183-184: every attempt failed.
ReturnNaT ==
    /\ ppc = "exhausted"
    /\ ppc' = "returned"
    /\ parsed' = NaT
    /\ UNCHANGED <<raw, attempts>>
    /\ UNCHANGED nonNormVars

NormNext ==
    \/ CheckNa
    \/ Attempt
    \/ ReturnNaT

SpecNorm == NormInit /\ [][NormNext]_vars

\* C11: the normalizer never raises, whatever the raw input (a string with
\* "@" that matches no format included): it returns an instant or the
\* unparseable marker.
C11_NormalizerNeverRaises == ppc # "raised"

\* The order of the attempts as the specification gives it.
ClaimedOrder ==
    IF raw.has_at THEN <<VendorFrac, Vendor, Infer>>
    ELSE <<IsoFrac, Iso, IsoDate, Infer>>

\* C12: for a string, the attempts made are an initial part of the ordered
\* chain (vendor format with, then without fractional seconds for a string
\* with "@"; ISO with fractional seconds, ISO, ISO date-only otherwise;
\* generic inference after them), every attempt before the last one failed,
\* a returned instant is the result of the last attempt made, and the
\* marker is returned only when the whole chain was attempted and failed.
C12_OrderedFallback ==
    raw.kind = "text" =>
        /\ Len(attempts) <= Len(ClaimedOrder)
        /\ \A k \in 1..Len(attempts) :
              /\ attempts[k] = ClaimedOrder[k]
              /\ k < Len(attempts) => raw.out[attempts[k]] = ParseError
        /\ ppc = "returned" =>
              /\ Len(attempts) >= 1
              /\ parsed # ParseError
              /\ parsed # NaT =>
                    parsed = raw.out[attempts[Len(attempts)]]
              /\ parsed = NaT =>
                    /\ Len(attempts) = Len(ClaimedOrder)
                    /\ \A k \in 1..Len(attempts) :
                          raw.out[attempts[k]] = ParseError

\* A vendor string without fractional seconds is returned from the second
\* attempt although generic inference would have read it differently.
C12_Witness ==
    /\ ppc = "returned"
    /\ raw.kind = "text"
    /\ raw.has_at
    /\ attempts = <<VendorFrac, Vendor>>
    /\ raw.out[Infer] # ParseError
    /\ raw.out[Infer] # parsed

\* C13 (as claimed): for an empty or null raw timestamp the marker is
\* returned before any parse attempt is made.
C13_NoAttemptForEmptyOrNull ==
    (ppc = "returned" /\ raw.kind \in {"null", "blank"}) =>
        /\ parsed = NaT
        /\ attempts = <<>>

\* C13 (amended): for a null raw timestamp the marker is returned before any
\* parse attempt; for an empty string the marker is what the first attempt
\* (ISO with fractional seconds) gives, and no further attempt is made.
C13_MarkerForEmptyOrNull ==
    /\ raw.kind = "null" =>
          /\ attempts = <<>>
          /\ ppc \in {"isna", "returned"}
          /\ parsed = NaT
    /\ raw.kind = "blank" =>
          /\ parsed = NaT
          /\ ppc \in {"isna", "try", "returned"}
          /\ ppc = "returned" => attempts = <<IsoFrac>>
          /\ ppc # "returned" => attempts = <<>>

C13_Witness ==
    /\ ppc = "returned"
    /\ raw.kind = "blank"
    /\ attempts = <<IsoFrac>>
    /\ parsed = NaT

\* ------------------------------------------------------------------------
\* Timezone reprojection: DataProcessor.convert_timezone and the single
\* timestamp conversions under it.  Civil timestamps and instants are whole
\* hours counted from 2024-01-01 00:00; an instant is counted in UTC.
\* ------------------------------------------------------------------------

\* Days of 2024 as day-of-year indices (1 January = 0).
Jan15 == 14
Mar10 == 69
Mar31 == 90
Jul15 == 196
Oct27 == 300
Nov03 == 307

\* The identifiers offered by get_available_timezones, all known to pytz.
KnownZones ==
    {"UTC", "Asia/Taipei", "Asia/Shanghai", "Asia/Hong_Kong", "Asia/Singapore",
     "Asia/Tokyo", "Europe/London", "America/New_York", "America/Los_Angeles"}

\* An identifier pytz does not know.
UnknownZone == "Mars/Phobos"

UnknownTimeZoneError == "UnknownTimeZoneError"

\* pytz.timezone(name) with every identifier resolved, the unknown one as UTC.
pytz_timezone_default_utc(name) ==
    IF name \in KnownZones THEN name ELSE "UTC"

\* pytz.timezone(name): the zone, or UnknownTimeZoneError raised.
pytz_timezone(name) ==
    IF name \in KnownZones THEN name ELSE UnknownTimeZoneError

\* Zones whose rules have a daylight-saving period in 2024.
DstZones == {"Europe/London", "America/New_York", "America/Los_Angeles"}

\* Standard UTC offset of a zone, in hours.
StdOffset(z) ==
    CASE z = "UTC" -> 0
      [] z \in {"Asia/Taipei", "Asia/Shanghai", "Asia/Hong_Kong",
                "Asia/Singapore"} -> 8
      [] z = "Asia/Tokyo" -> 9
      [] z = "Europe/London" -> 0
      [] z = "America/New_York" -> 0 - 5
      [] z = "America/Los_Angeles" -> 0 - 8

\* Hours a zone's clock is advanced during daylight-saving time.
DstDelta == 1

\* The instants at which daylight-saving time starts and ends in 2024.
DstStart(z) ==
    CASE z = "Europe/London" -> Combine(Mar31, 1)
      [] z = "America/New_York" -> Combine(Mar10, 7)
      [] z = "America/Los_Angeles" -> Combine(Mar10, 10)

DstEnd(z) ==
    CASE z = "Europe/London" -> Combine(Oct27, 1)
      [] z = "America/New_York" -> Combine(Nov03, 6)
      [] z = "America/Los_Angeles" -> Combine(Nov03, 9)

\* tzinfo.dst() is non-zero at instant u.
is_dst(z, u) ==
    /\ z \in DstZones
    /\ DstStart(z) <= u
    /\ u < DstEnd(z)

utcoffset(z, u) == StdOffset(z) + (IF is_dst(z, u) THEN DstDelta ELSE 0)

\* The civil time shown in zone z at instant u, tzinfo dropped.
astimezone(u, z) == u + utcoffset(z, u)

\* The instant a civil time has when read with the standard, or with the
\* daylight, offset of z; each reading is valid when the zone uses that
\* offset at that instant.
AsStandard(z, naive) == naive - StdOffset(z)
AsDaylight(z, naive) == naive - StdOffset(z) - DstDelta
StandardValid(z, naive) == ~is_dst(z, AsStandard(z, naive))
DaylightValid(z, naive) == is_dst(z, AsDaylight(z, naive))

\* tz.localize(naive) reading every civil time with the standard offset.
localize_standard_only(z, naive, fold) == AsStandard(z, naive)

\* tz.localize(naive), is_dst left at its default: the one valid reading; for
\* a civil time the fall-back repeats, the reading the build resolves it to;
\* for a civil time the spring-forward skips, the standard reading.
localize(z, naive, fold) ==
    IF StandardValid(z, naive) /\ DaylightValid(z, naive)
    THEN (IF fold THEN AsDaylight(z, naive) ELSE AsStandard(z, naive))
    ELSE IF DaylightValid(z, naive)
         THEN AsDaylight(z, naive)
         ELSE AsStandard(z, naive)

\* DataProcessor._convert_single_timestamp
convert_single_timestamp(timestamp, source_tz, target_tz, fold) ==
    IF timestamp = NaT
    THEN timestamp
    ELSE astimezone(localize(source_tz, timestamp, fold), target_tz)

\* dst_override: None, "自動", "強制夏令時", "強制標準時間".
NoOverride == "None"
AutoMode == "auto"
ForceDst == "force_dst"
ForceStandard == "force_standard"
Overrides == {NoOverride, AutoMode, ForceDst, ForceStandard}

\* The adjustment branch entered for every target zone.
dst_capable_any(target_tz) == TRUE

\* The target zones for which a forced mode computes an adjustment.
dst_capable(target_tz) ==
    target_tz \in {"America/New_York", "America/Los_Angeles", "Europe/London"}

\* Hour difference between the summer and the winter probe, both localized in
\* the source zone and shown in the target zone.
dst_offset(timestamp, source_tz, target_tz, fold) ==
    LET summer_test == Combine(Jul15, TimeOf(timestamp))
        winter_test == Combine(Jan15, TimeOf(timestamp))
        summer_target == astimezone(localize(source_tz, summer_test, fold), target_tz)
        winter_target == astimezone(localize(source_tz, winter_test, fold), target_tz)
    IN (TimeOf(summer_target) - TimeOf(winter_target)) % HoursPerDay

\* bool(test_converted.dst())
is_currently_dst(timestamp, source_tz, target_tz, fold) ==
    is_dst(target_tz, localize(source_tz, timestamp, fold))

\* DataProcessor._convert_single_timestamp_with_override
convert_single_timestamp_with_override(timestamp, source_tz, target_tz, dst_override, fold) ==
    LET normal_converted ==
            convert_single_timestamp(timestamp, source_tz, target_tz, fold)
        offset == dst_offset(timestamp, source_tz, target_tz, fold)
        currently == is_currently_dst(timestamp, source_tz, target_tz, fold)
    IN  IF timestamp = NaT THEN timestamp
        ELSE IF dst_override \in {NoOverride, AutoMode} THEN normal_converted
        ELSE IF ~dst_capable(target_tz) THEN normal_converted
        ELSE IF dst_override = ForceDst /\ ~currently /\ offset > 0
             THEN normal_converted + offset
        ELSE IF dst_override = ForceStandard /\ currently /\ offset > 0
             THEN normal_converted - offset
        ELSE normal_converted

\* ---- One timestamp through _convert_single_timestamp_with_override ----

\* Civil inputs: every hour of a winter day, a summer day and the four days
\* of 2024 on which one of the modelled zones changes its offset.
ConvDays == {Jan15, Mar10, Mar31, Jul15, Oct27, Nov03}
ConvStamps == {Combine(d, h) : d \in ConvDays, h \in 0 .. (HoursPerDay - 1)}

ConvInit ==
    /\ SegOff /\ NormOff /\ TzOff /\ LaterOff
    /\ cv_stage = "input"
    /\ cv_t \in ConvStamps
    /\ cv_src \in KnownZones
    /\ cv_tgt \in KnownZones
    /\ fold_dst \in BOOLEAN
    /\ cv_mode = AutoMode
    /\ cv_out = NaT
    /\ cv_again = "none"
    /\ cv_out2 = NaT

\* The lambda of convert_timezone applied to one timestamp.
Convert ==
    /\ cv_stage = "input"
    /\ \E dst_override \in Overrides :
          /\ cv_mode' = dst_override
          /\ cv_out' = convert_single_timestamp_with_override(
                           cv_t, cv_src, cv_tgt, dst_override, fold_dst)
    /\ cv_stage' = "converted"
    /\ UNCHANGED <<cv_t, cv_src, cv_tgt, cv_again, cv_out2, fold_dst>>
    /\ UNCHANGED nonConvVars

\* The result converted back, from the target zone to the source zone, with
\* the same dst_override.
ConvertBack ==
    /\ cv_stage = "converted"
    /\ cv_out2' = convert_single_timestamp_with_override(
                      cv_out, cv_tgt, cv_src, cv_mode, fold_dst)
    /\ cv_again' = "back"
    /\ cv_stage' = "again"
    /\ UNCHANGED <<cv_t, cv_src, cv_tgt, cv_mode, cv_out, fold_dst>>
    /\ UNCHANGED nonConvVars

\* The same dst_override applied once more to the result, a civil time of the
\* target zone.
ForceAgain ==
    /\ cv_stage = "converted"
    /\ cv_out2' = convert_single_timestamp_with_override(
                      cv_out, cv_tgt, cv_tgt, cv_mode, fold_dst)
    /\ cv_again' = "same_zone"
    /\ cv_stage' = "again"
    /\ UNCHANGED <<cv_t, cv_src, cv_tgt, cv_mode, cv_out, fold_dst>>
    /\ UNCHANGED nonConvVars

ConvNext == Convert \/ ConvertBack \/ ForceAgain

SpecConv == ConvInit /\ [][ConvNext]_vars

\* What auto mode gives for the conversion in hand, and whether that result
\* is in daylight-saving time of the target zone.
AutoResult == convert_single_timestamp(cv_t, cv_src, cv_tgt, fold_dst)
AutoInDst == is_dst(cv_tgt, localize(cv_src, cv_t, fold_dst))

\* C17: for a target zone without daylight-saving time (UTC and the UTC+8
\* zones) every dst_override gives the auto result, unmodified.
NoDstTargets ==
    {"UTC", "Asia/Taipei", "Asia/Shanghai", "Asia/Hong_Kong", "Asia/Singapore"}

C17_OverrideIgnoredWithoutDst ==
    (cv_stage # "input" /\ cv_tgt \in NoDstTargets) => cv_out = AutoResult

\* A forced conversion from New York to Taipei of a summer timestamp: the
\* source observes daylight-saving time, the target does not.
C17_Witness ==
    /\ cv_stage = "converted"
    /\ cv_mode = ForceDst
    /\ cv_src = "America/New_York"
    /\ cv_tgt = "Asia/Taipei"
    /\ cv_t = Combine(Jul15, 9)
    /\ cv_out = Combine(Jul15, 21)

\* C18 (as claimed): for a daylight-saving target zone and any source zone,
\* force_dst gives the auto result plus the zone's delta when the auto result
\* is in standard time, force_standard gives the auto result minus the delta
\* when it is in daylight-saving time, and both give the auto result
\* otherwise.
C18_ForcedShift ==
    (cv_stage # "input" /\ cv_tgt \in DstZones) =>
        /\ cv_mode = ForceDst =>
              cv_out = (IF AutoInDst THEN AutoResult ELSE AutoResult + DstDelta)
        /\ cv_mode = ForceStandard =>
              cv_out = (IF AutoInDst THEN AutoResult - DstDelta ELSE AutoResult)

\* C19 (as claimed): force_dst applied again to a result of force_dst gives
\* the same civil timestamp.
C19_ForceDstIdempotent ==
    (cv_again = "same_zone" /\ cv_mode = ForceDst) => cv_out2 = cv_out

\* C20 (as claimed): in auto mode a civil timestamp converted from zone A to
\* zone B and back is the original, for every pair of zones and every civil
\* timestamp.
C20_RoundTripAlways ==
    (cv_again = "back" /\ cv_mode \in {NoOverride, AutoMode}) => cv_out2 = cv_t

\* The civil hour a zone's spring-forward skips, and the one its fall-back
\* repeats.
Skipped(z, naive) ==
    /\ z \in DstZones
    /\ naive = DstStart(z) + StdOffset(z)

Repeated(z, naive) ==
    /\ z \in DstZones
    /\ naive = DstEnd(z) + StdOffset(z)

\* C20 (amended): in auto mode the round trip from A to B and back gives the
\* original civil timestamp whenever that timestamp is not a civil hour that
\* A skips and its image is not a civil hour that B repeats.
C20_RoundTripUnambiguous ==
    ( /\ cv_again = "back"
      /\ cv_mode \in {NoOverride, AutoMode}
      /\ ~Skipped(cv_src, cv_t)
      /\ ~Repeated(cv_tgt, cv_out) ) => cv_out2 = cv_t

\* A summer round trip between two daylight-saving zones, London and New York.
C20_Witness ==
    /\ cv_again = "back"
    /\ cv_mode = AutoMode
    /\ cv_src = "Europe/London"
    /\ cv_tgt = "America/New_York"
    /\ cv_t = Combine(Jul15, 12)
    /\ cv_out = Combine(Jul15, 7)
    /\ cv_out2 = cv_t

\* ---- The stored record set through DataProcessor.convert_timezone ----

MaxStored == 2

\* request_timestamp values of stored records.
TzStamps == {NaT, Combine(Jan15, 12), Combine(Mar10, 14), Combine(Jul15, 12)}

\* Zone identifiers passed to convert_timezone.
TzCallZones == {"UTC", "Asia/Taipei", "America/New_York", UnknownZone}

\* self.df after load_and_process_csv: None, or records that carry their
\* conversation_id and their request_timestamp.
StoredFrames ==
    {NoneFrame} \cup
    UNION {{Frame([i \in 1 .. n |-> [id |-> i, ts |-> f[i]]]) :
               f \in [1 .. n -> TzStamps]} : n \in 0 .. MaxStored}

\* df_converted bound to self.df itself, so that the column assignment lands
\* on the stored frame.
stored_after_assignment_aliased(df, df_converted) == df_converted

\* self.df after the column assignment of lines 426-430, made on the copy
\* taken at line 418.
stored_after_assignment(df, df_converted) == df

\* df.copy()
copy(df) == Frame(df.rows)

\* The test the export path makes on the value handed back: None selects
\* the branch that warns and falls back to the unconverted data.
takes_warning_branch(converted_df) == converted_df.none

TzInit ==
    /\ SegOff /\ NormOff /\ ConvIdle /\ LaterOff
    /\ fold_dst \in BOOLEAN
    /\ self_df \in StoredFrames
    /\ returned = NoneFrame
    /\ tz_args = <<>>
    /\ tz_failed = FALSE

\* DataProcessor.convert_timezone
ConvertTimezone ==
    /\ \E source_timezone \in TzCallZones, target_timezone \in TzCallZones,
          dst_override \in Overrides :
          LET source_tz == pytz_timezone(source_timezone)
              target_tz == pytz_timezone(target_timezone)
              raised == \/ source_tz = UnknownTimeZoneError
                        \/ target_tz = UnknownTimeZoneError
              df_converted ==
                  Frame([i \in 1 .. Len(self_df.rows) |->
                      [self_df.rows[i] EXCEPT !.ts =
                          convert_single_timestamp_with_override(
                              @, source_tz, target_tz, dst_override, fold_dst)]])
          IN  /\ tz_args' = <<source_timezone, target_timezone, dst_override>>
              /\ IF self_df.none
                 THEN /\ returned' = NoneFrame
                      /\ tz_failed' = FALSE
                      /\ self_df' = self_df
                 ELSE IF raised
                 THEN /\ returned' = copy(self_df)
                      /\ tz_failed' = TRUE
                      /\ self_df' = self_df
                 ELSE /\ returned' = df_converted
                      /\ tz_failed' = FALSE
                      /\ self_df' = stored_after_assignment(self_df, df_converted)
    /\ UNCHANGED nonTzVars

TzNext == ConvertTimezone

SpecTz == TzInit /\ [][TzNext]_vars

\* The returned frame holds the stored records in the stored order, with
\* nothing but request_timestamp possibly different.
SameRecords ==
    \/ returned.none
    \/ /\ Len(returned.rows) = Len(self_df.rows)
       /\ \A i \in 1 .. Len(returned.rows) :
             [returned.rows[i] EXCEPT !.ts = NaT] =
             [self_df.rows[i] EXCEPT !.ts = NaT]

\* C14: no call of convert_timezone, successful or failed, changes the
\* stored record set, and what a call returns differs from the stored set at
\* most in request_timestamp, with the same records in the same order.
C14_NeverEditsInPlace ==
    [][self_df' = self_df /\ SameRecords']_vars

\* A successful call on two stored records, both returned with another
\* timestamp.
C14_Witness ==
    /\ tz_args # <<>>
    /\ ~tz_failed
    /\ Len(self_df.rows) = 2
    /\ \A i \in 1 .. 2 : returned.rows[i].ts # self_df.rows[i].ts

UnrecognizedCall ==
    /\ tz_args # <<>>
    /\ \/ tz_args[1] \notin KnownZones
       \/ tz_args[2] \notin KnownZones

\* C15: after a call with an unrecognized source or target zone the frame
\* handed back has every request_timestamp equal to the stored, unconverted
\* value.
C15_FailureReturnsUnconverted ==
    (UnrecognizedCall /\ ~self_df.none) =>
        /\ ~returned.none
        /\ returned.rows = self_df.rows

\* A call from Asia/Taipei to the unrecognized zone on two stored records
\* with timestamps.
C15_Witness ==
    /\ tz_args # <<>>
    /\ tz_args[1] = "Asia/Taipei"
    /\ tz_args[2] = UnknownZone
    /\ tz_failed
    /\ Len(self_df.rows) = 2
    /\ \A i \in 1 .. 2 : self_df.rows[i].ts # NaT
    /\ returned.rows = self_df.rows

\* C16 (as claimed): after a call with an unrecognized zone the caller can
\* tell that the conversion failed, and the export path takes its
\* warning-and-fallback branch.
C16_FailureSurfaced ==
    (UnrecognizedCall /\ ~self_df.none) => takes_warning_branch(returned)

(***************************************************************************)
(* Alarm-entity extraction, ExportManager._extract_alarm_time              *)
(* (src/export_manager.py), as called for every conversation line of the   *)
(* report.                                                                 *)
(***************************************************************************)

\* user_intent cells: absent (conv.get gives ""), NaN (not a string), and
\* strings.
Intents ==
    {NoneValue, Number, Str(""), Str("alarm"), Str("ALARM"), Str("Alarm"),
     Str("weather")}

\* str.lower()
lower(text) ==
    CASE text \in {"alarm", "ALARM", "Alarm"} -> "alarm"
      [] OTHER -> text

\* startDateTime / endDateTime values: absent, empty, two ISO instants, a
\* string that is no date, a number.
Alarm0900 == "2025-01-01T09:00:00Z"
Alarm1000 == "2025-01-01T10:00:00Z"
DateTimes ==
    {NoneValue, Str(""), Str(Alarm0900), Str(Alarm1000), Str("tomorrow"), Number}

\* start_datetime.replace('Z', '+00:00')
replace_Z(text) ==
    CASE text = Alarm0900 -> "2025-01-01T09:00:00+00:00"
      [] text = Alarm1000 -> "2025-01-01T10:00:00+00:00"
      [] OTHER -> text

\* datetime.fromisoformat: <<year, month, day, hour, minute>>, or <<>> for
\* ValueError.
fromisoformat(text) ==
    CASE text = "2025-01-01T09:00:00+00:00" -> <<2025, 1, 1, 9, 0>>
      [] text = "2025-01-01T10:00:00+00:00" -> <<2025, 1, 1, 10, 0>>
      [] OTHER -> <<>>

\* dt.strftime("%Y-%m-%d %H:%M")
strftime(dt) ==
    CASE dt = <<2025, 1, 1, 9, 0>> -> "2025-01-01 09:00"
      [] dt = <<2025, 1, 1, 10, 0>> -> "2025-01-01 10:00"

\* f" alarm_entity:({formatted_time})"
annotation(formatted_time) ==
    CASE formatted_time = "2025-01-01 09:00" -> " alarm_entity:(2025-01-01 09:00)"
      [] formatted_time = "2025-01-01 10:00" -> " alarm_entity:(2025-01-01 10:00)"

\* What uni_df_datetime can be: absent, null, an empty record, a record with
\* the two times, a string that decodes to such a record, a string that does
\* not decode, a string that decodes to a number, a number, a list.
UniShapes ==
    {"missing", "null", "empty_dict", "dict", "json_dict", "bad_json",
     "json_number", "number", "list"}

\* Record-like values: what they hold under uni_df_datetime, and the two
\* times where that is a record.
Dicts ==
    {[uni |-> u, start |-> NoneValue, end |-> NoneValue] :
        u \in UniShapes \ {"dict", "json_dict"}}
    \cup [uni : {"dict", "json_dict"}, start : DateTimes, end : DateTimes]

\* Decoded payloads: a record, a list (of 0, 1 or 2 elements, the first a
\* record or not) or a scalar.
Tops ==
    {[top |-> "dict", len |-> 0, first |-> "dict", uni |-> d.uni,
      start |-> d.start, end |-> d.end] : d \in Dicts}
    \cup {[top |-> "list", len |-> n, first |-> "dict", uni |-> d.uni,
           start |-> d.start, end |-> d.end] : n \in {1, 2}, d \in Dicts}
    \cup {[top |-> "list", len |-> n, first |-> "scalar", uni |-> "missing",
           start |-> NoneValue, end |-> NoneValue] : n \in {0, 1, 2}}
    \cup {[top |-> "scalar", len |-> 0, first |-> "scalar", uni |-> "missing",
           start |-> NoneValue, end |-> NoneValue]}

\* The data cell: absent, NaN, an empty string, a string that is not JSON, a
\* number, or a payload given as JSON text or as an object.
ScalarTop ==
    [top |-> "scalar", len |-> 0, first |-> "scalar", uni |-> "missing",
     start |-> NoneValue, end |-> NoneValue]

Payloads ==
    {[form |-> f, top |-> ScalarTop.top, len |-> 0, first |-> "scalar",
      uni |-> "missing", start |-> NoneValue, end |-> NoneValue] :
        f \in {"missing", "nan", "empty_str", "bad_json", "number"}}
    \cup {[form |-> "json_str", top |-> x.top, len |-> x.len,
           first |-> x.first, uni |-> x.uni, start |-> x.start,
           end |-> x.end] : x \in Tops}
    \cup {[form |-> "object", top |-> x.top, len |-> x.len, first |-> x.first,
           uni |-> x.uni, start |-> x.start, end |-> x.end] :
             x \in {y \in Tops : y.top # "scalar"}}

Convs ==
    {[intent |-> i, form |-> q.form, top |-> q.top, len |-> q.len,
      first |-> q.first, uni |-> q.uni, start |-> q.start, end |-> q.end] :
        i \in Intents, q \in Payloads}

\* The outer handler takes ValueError only.
outer_except_value_error(exc) == exc = "ValueError"

\* except Exception (line 434) takes every exception a step can raise.
outer_except(exc) == exc \in {"AttributeError", "ValueError", "TypeError"}

\* Where a raise inside the try block leads.
raise(exc) == IF outer_except(exc) THEN "handler" ELSE "propagated"

\* Truth value of a startDateTime / endDateTime value.
truthy(v) == v.t = "num" \/ (v.t = "str" /\ v.s # "")

\* The two times are present whatever they are.
times_match_any(start_datetime, end_datetime) ==
    truthy(start_datetime) /\ truthy(end_datetime)

\* Line 414 negated: both times present and equal.
times_match(start_datetime, end_datetime) ==
    /\ truthy(start_datetime)
    /\ truthy(end_datetime)
    /\ start_datetime = end_datetime

AlarmInit ==
    /\ SegOff /\ NormOff /\ TzOff /\ ConvOff /\ ReportOff /\ RunOff /\ ExportOff
    /\ conv \in Convs
    /\ apc = "intent"
    /\ data_json = "none"
    /\ alarm_time_info = ""

\* Lines 340-344: conv.get("user_intent", "").lower(); a cell that is not a
\* string has no lower().
CheckIntent ==
    /\ apc = "intent"
    /\ apc' = IF conv.intent.t = "num" THEN raise("AttributeError")
              ELSE IF lower(conv.intent.s) # "alarm" THEN "returned"
              ELSE "data"
    /\ UNCHANGED <<conv, data_json, alarm_time_info>>
    /\ UNCHANGED nonAlarmVars

\* Lines 347-351: pd.isna(data_field) or not data_field.  For a list
\* pd.isna gives an array, whose truth value is an error unless it has one
\* element (for an empty array: an error or False, and then "not []" holds).
ReadData ==
    /\ apc = "data"
    /\ apc' = IF conv.form \in {"missing", "nan", "empty_str"} THEN "returned"
              ELSE IF conv.form = "object" /\ conv.top = "list" /\ conv.len = 2
              THEN raise("ValueError")
              ELSE IF conv.form = "object" /\ conv.top = "list" /\ conv.len = 0
              THEN "returned"
              ELSE "decode"
    /\ UNCHANGED <<conv, data_json, alarm_time_info>>
    /\ UNCHANGED nonAlarmVars

\* Lines 355-370: json.loads of a string, a record or list taken as it is,
\* anything else given up.
DecodeData ==
    /\ apc = "decode"
    /\ IF conv.form \in {"bad_json", "number"}
       THEN /\ apc' = "returned"
            /\ UNCHANGED data_json
       ELSE /\ apc' = "unwrap"
            /\ data_json' = conv.top
    /\ UNCHANGED <<conv, alarm_time_info>>
    /\ UNCHANGED nonAlarmVars

\* Lines 373-385: the first element of a list; the result must be a record.
UnwrapList ==
    /\ apc = "unwrap"
    /\ IF data_json = "list" /\ conv.len = 0
       THEN /\ apc' = "returned"
            /\ UNCHANGED data_json
       ELSE LET element == IF data_json = "list" THEN conv.first ELSE data_json
            IN /\ data_json' = element
               /\ apc' = IF element = "dict" THEN "entity" ELSE "returned"
    /\ UNCHANGED <<conv, alarm_time_info>>
    /\ UNCHANGED nonAlarmVars

\* Lines 388-406: uni_df_datetime must be there, is decoded when it is a
\* string, and must be a record.
ReadEntity ==
    /\ apc = "entity"
    /\ apc' = IF conv.uni \in {"dict", "json_dict"} THEN "times" ELSE "returned"
    /\ UNCHANGED <<conv, data_json, alarm_time_info>>
    /\ UNCHANGED nonAlarmVars

\* Lines 409-432: the two times must match; a string is parsed and formatted.
FormatTime ==
    /\ apc = "times"
    /\ alarm_time_info' =
          IF /\ times_match(conv.start, conv.end)
             /\ conv.start.t = "str"
             /\ fromisoformat(replace_Z(conv.start.s)) # <<>>
          THEN annotation(strftime(fromisoformat(replace_Z(conv.start.s))))
          ELSE ""
    /\ apc' = "returned"
    /\ UNCHANGED <<conv, data_json>>
    /\ UNCHANGED nonAlarmVars

\* Lines 434-436: the outer handler logs and returns "".
OuterExcept ==
    /\ apc = "handler"
    /\ alarm_time_info' = ""
    /\ apc' = "returned"
    /\ UNCHANGED <<conv, data_json>>
    /\ UNCHANGED nonAlarmVars

\* generate_export_text, lines 513-518: the conversation's lines are appended
\* to the report with the annotation after the response.
AppendLines ==
    /\ apc = "returned"
    /\ apc' = "rendered"
    /\ UNCHANGED <<conv, data_json, alarm_time_info>>
    /\ UNCHANGED nonAlarmVars

AlarmNext ==
    \/ CheckIntent
    \/ ReadData
    \/ DecodeData
    \/ UnwrapList
    \/ ReadEntity
    \/ FormatTime
    \/ OuterExcept
    \/ AppendLines

SpecAlarm == AlarmInit /\ [][AlarmNext]_vars

Annotations ==
    {" alarm_entity:(2025-01-01 09:00)", " alarm_entity:(2025-01-01 10:00)"}

\* C21: the extraction never lets an exception out: for every row it hands
\* back an annotation or the empty annotation, and the row's lines are
\* rendered.
C21_ExtractionNeverPropagates ==
    /\ apc # "propagated"
    /\ apc \in {"returned", "rendered"} =>
          alarm_time_info \in Annotations \cup {""}
    /\ (apc \notin {"returned", "rendered"}) => ENABLED AlarmNext

\* A row whose intent cell is not a string has been rendered without an
\* annotation.
C21_Witness ==
    /\ apc = "rendered"
    /\ conv.intent.t = "num"
    /\ alarm_time_info = ""

\* C22: an annotation is handed back only if the intent is "alarm" in any
\* letter case and startDateTime and endDateTime are both present and equal;
\* intent "alarm" with both times 2025-01-01T09:00:00Z gives an annotation
\* that holds 2025-01-01 09:00; differing times, or another intent, give none.
ScenarioPayload(start, end) ==
    /\ conv.form \in {"json_str", "object"}
    /\ conv.top = "dict"
    /\ conv.uni = "dict"
    /\ conv.start = Str(start)
    /\ conv.end = Str(end)

C22_AnnotationOnlyForMatchingAlarm ==
    apc \in {"returned", "rendered"} =>
        /\ alarm_time_info # "" =>
              /\ conv.intent.t = "str"
              /\ lower(conv.intent.s) = "alarm"
              /\ truthy(conv.start)
              /\ truthy(conv.end)
              /\ conv.start = conv.end
        /\ (conv.intent = Str("alarm") /\ ScenarioPayload(Alarm0900, Alarm0900)) =>
              alarm_time_info = " alarm_entity:(2025-01-01 09:00)"
        /\ (conv.intent = Str("alarm") /\ ScenarioPayload(Alarm0900, Alarm1000)) =>
              alarm_time_info = ""
        /\ (conv.intent.t = "str" /\ lower(conv.intent.s) # "alarm") =>
              alarm_time_info = ""

\* The scenario row, its payload given as JSON text, rendered with its
\* annotation.
C22_Witness ==
    /\ apc = "rendered"
    /\ conv.intent = Str("alarm")
    /\ conv.form = "json_str"
    /\ ScenarioPayload(Alarm0900, Alarm0900)
    /\ alarm_time_info = " alarm_entity:(2025-01-01 09:00)"

(***************************************************************************)
(* Report rendering, ExportManager.generate_export_text                    *)
(* (src/export_manager.py).                                                *)
(***************************************************************************)

MaxCalls == 2

\* Three partitions; two hotels have a room of the same name.
ReportPartitions ==
    <<[hotel |-> 1, room |-> 101], [hotel |-> 2, room |-> 101],
      [hotel |-> 1, room |-> 102]>>

\* The windows a partition's sessions can have, listed by their start.
ReportStarts == {Combine(1, 14), Combine(2, 14)}

\* A session list as _segment_room_conversations gives it for one partition:
\* starts in non-decreasing order (a window can be emitted twice); session n
\* holds the one conversation <<hotel, room, n>>.
StartLists ==
    {<<>>} \cup {<<a>> : a \in ReportStarts}
    \cup {ab \in {<<a, b>> : a \in ReportStarts, b \in ReportStarts} :
             ab[1] <= ab[2]}

SessionsOf(part, starts) ==
    [n \in 1 .. Len(starts) |->
        SessionDict(part.hotel, part.room, starts[n], starts[n] + 21,
                    <<<<part.hotel, part.room, n>>>>, FALSE)]

PartitionLists ==
    {[k \in 1 .. Len(ReportPartitions) |-> SessionsOf(ReportPartitions[k], f[k])] :
        f \in [1 .. Len(ReportPartitions) -> StartLists]}

\* The orders in which the partitions' lists can be concatenated.
Orders ==
    {o \in [1 .. Len(ReportPartitions) -> 1 .. Len(ReportPartitions)] :
        \A i, j \in 1 .. Len(ReportPartitions) : i # j => o[i] # o[j]}

\* sessions.extend(room_sessions) for the partitions taken in order o.
RECURSIVE extend_all(_, _, _)
extend_all(lists, o, k) ==
    IF k > Len(o) THEN <<>>
    ELSE lists[o[k]] \o extend_all(lists, o, k + 1)

\* The sort key without the room.
KeyLeq_start_only(a, b) == a.start_time <= b.start_time

\* The sort key of line 469, (start_time, room), compared as tuples.
KeyLeq(a, b) ==
    IF a.start_time # b.start_time THEN a.start_time < b.start_time
    ELSE a.room <= b.room

RECURSIVE InsertSession(_, _)
InsertSession(ss, x) ==
    IF ss = <<>> THEN <<x>>
    ELSE IF KeyLeq(ss[Len(ss)], x) THEN Append(ss, x)
    ELSE Append(InsertSession(SubSeq(ss, 1, Len(ss) - 1), x), ss[Len(ss)])

\* The list left in the order it was given.
sorted_unsorted(ss) == ss

\* sorted(sessions, key = ...): a stable sort.
RECURSIVE sorted(_)
sorted(ss) ==
    IF ss = <<>> THEN <<>>
    ELSE InsertSession(sorted(SubSeq(ss, 1, Len(ss) - 1)), ss[Len(ss)])

\* Lines 471-523: the header's session count and one block per session,
\* with the block's title data, its period and its conversations.
render(ss) ==
    LET sorted_sessions == sorted(ss)
    IN [count |-> Len(sorted_sessions),
        blocks |-> [i \in 1 .. Len(sorted_sessions) |->
                      [hotel |-> sorted_sessions[i].hotel,
                       room |-> sorted_sessions[i].room,
                       is_gap |-> sorted_sessions[i].is_gap_period,
                       start_time |-> sorted_sessions[i].start_time,
                       end_time |-> sorted_sessions[i].end_time,
                       conversations |-> sorted_sessions[i].conversations]]]

ReportInit ==
    /\ SegOff /\ NormOff /\ TzOff /\ ConvOff /\ AlarmOff /\ RunOff /\ ExportOff
    /\ partition_sessions \in PartitionLists
    /\ calls = 0
    /\ sessions_arg = <<>>
    /\ report = NoReport
    /\ first_report = NoReport

\* generate_export_text called on the partitions' lists concatenated in
\* some order.
GenerateExportText ==
    /\ calls < MaxCalls
    /\ \E o \in Orders :
          /\ sessions_arg' = extend_all(partition_sessions, o, 1)
          /\ report' = render(extend_all(partition_sessions, o, 1))
    /\ first_report' = report
    /\ calls' = calls + 1
    /\ UNCHANGED partition_sessions
    /\ UNCHANGED nonReportVars

ReportNext == GenerateExportText

SpecReport == ReportInit /\ [][ReportNext]_vars

\* C23: the blocks of a report are in non-decreasing order of (start, room),
\* whatever the order of the sessions handed in, and the header's count is
\* the number of blocks; every session handed in has its block.
C23_BlocksSortedAndCounted ==
    calls >= 1 =>
        /\ \A i, j \in 1 .. Len(report.blocks) :
              i < j =>
                 \/ report.blocks[i].start_time < report.blocks[j].start_time
                 \/ /\ report.blocks[i].start_time = report.blocks[j].start_time
                    /\ report.blocks[i].room <= report.blocks[j].room
        /\ report.count = Len(report.blocks)
        /\ Len(report.blocks) = Len(sessions_arg)
        /\ \A k \in 1 .. Len(sessions_arg) :
              \E i \in 1 .. Len(report.blocks) :
                 report.blocks[i].conversations = sessions_arg[k].conversations

\* A report of four blocks made from a list that was not in (start, room)
\* order.
C23_Witness ==
    /\ calls >= 1
    /\ report.count = 4
    /\ \E k \in 1 .. Len(sessions_arg) - 1 :
          ~KeyLeq(sessions_arg[k], sessions_arg[k + 1])

\* C29 (as claimed): the report is the same whatever the order in which the
\* partitions' session lists are concatenated, also when two hotels have a
\* room of the same name with sessions of equal start.
C29_OrderIndependent ==
    calls >= 2 => report = first_report

\* Two sessions of different partitions with the same start and room name.
CrossPartitionTie ==
    \E i, j \in 1 .. Len(sessions_arg) :
        /\ sessions_arg[i].hotel # sessions_arg[j].hotel
        /\ sessions_arg[i].room = sessions_arg[j].room
        /\ sessions_arg[i].start_time = sessions_arg[j].start_time

\* C29 (amended): the report is the same whatever the order in which the
\* partitions' session lists are concatenated, provided no two sessions of
\* different partitions have the same start and the same room name.
C29_OrderIndependentWithoutTies ==
    (calls >= 2 /\ ~CrossPartitionTie) => report = first_report

\* Two reports of at least three blocks, made from differently ordered
\* lists, are equal.
C29_Witness ==
    /\ calls >= 2
    /\ ~CrossPartitionTie
    /\ report.count >= 3
    /\ report = first_report
    /\ \E k \in 1 .. Len(sessions_arg) - 1 :
          ~KeyLeq(sessions_arg[k], sessions_arg[k + 1])

(***************************************************************************)
(* Two calls of segment_by_stay_sessions in a row: the second on the same  *)
(* batch under another gap policy, or on the rows of one partition of the  *)
(* batch alone.                                                            *)
(***************************************************************************)

MaxAgain == 3

AgainHours == {10, 13, 15}
AgainRows ==
    [hotel : Hotels, room : Rooms,
     ts : {Combine(d, h) : d \in Dates, h \in AgainHours}]
AgainBatches == UNION {[1..n -> AgainRows] : n \in 0..MaxAgain}

\* What a returned list of sessions holds: for each session its partition,
\* its window and the timestamps of its conversations.
Content(ss, df) ==
    [k \in 1..Len(ss) |->
        [hotel |-> ss[k].hotel, room |-> ss[k].room,
         start_time |-> ss[k].start_time, end_time |-> ss[k].end_time,
         stamps |-> [m \in 1..Len(ss[k].conversations) |->
                        df[ss[k].conversations[m]].ts]]]

\* The sessions of partition g in such a list.
OfPartition(content, g) ==
    SelectSeq(content, LAMBDA c : c.hotel = g.hotel /\ c.room = g.room)

\* The rows of partition g in a batch.
RowsOf(df, g) ==
    SelectSeq(df, LAMBDA r : r.hotel = g.hotel /\ r.room = g.room)

\* Entry of segment_by_stay_sessions (lines 39-51) with the given arguments:
\* fresh locals, the batch sorted.
Enter(df, ci, co, mode) ==
    /\ IF df = <<>>
       THEN /\ pc' = "done"
            /\ df_sorted' = <<>>
       ELSE /\ pc' = "groupby"
            /\ df_sorted' = sort_values(df)
    /\ checkin_time' = ci
    /\ checkout_time' = co
    /\ gap_period_mode' = mode
    /\ pos' = 1
    /\ group' = NoGroup
    /\ sessions' = <<>>
    /\ room_sessions' = <<>>
    /\ current_session' = <<>>
    /\ current_conversations' = <<>>
    /\ is_gap' = FALSE

\* The first call.
SegmentFirst ==
    /\ pc = "idle"
    /\ \E df \in AgainBatches :
          \E ci \in CheckTimes, co \in CheckTimes, mode \in Modes :
              Enter(df, ci, co, mode)
    /\ UNCHANGED nonSegVars

\* The second call, on the same batch under another gap policy.
SegmentOtherMode ==
    /\ pc = "done"
    /\ prev.kind = "none"
    /\ \E mode \in Modes \ {gap_period_mode} :
          Enter(df_sorted, checkin_time, checkout_time, mode)
    /\ prev' = [kind |-> "mode", mode |-> gap_period_mode,
                content |-> Content(sessions, df_sorted)]
    /\ UNCHANGED <<normVars, tzVars, convVars, alarmVars, reportVars, exportVars>>

\* The second call, on the rows of one partition of the batch, the other
\* arguments kept.
SegmentOnePartition ==
    /\ pc = "done"
    /\ prev.kind = "none"
    /\ \E i \in 1..Len(df_sorted) :
          LET g == [hotel |-> df_sorted[i].hotel, room |-> df_sorted[i].room]
          IN Enter(RowsOf(df_sorted, g), checkin_time, checkout_time,
                   gap_period_mode)
    /\ prev' = [kind |-> "partition", mode |-> gap_period_mode,
                content |-> Content(sessions, df_sorted)]
    /\ UNCHANGED <<normVars, tzVars, convVars, alarmVars, reportVars, exportVars>>

AgainNext ==
    \/ SegmentFirst
    \/ SegmentOtherMode
    \/ SegmentOnePartition
    \/ NextGroup
    \/ RowStep
    \/ RoomFlush
    \/ SepRowStep
    \/ SepReturn
    \/ Return

SpecAgain == Init /\ [][AgainNext]_vars

\* C25: every returned session holds rows of its own (hotel, room) only,
\* and the sessions returned for a partition are the same when the rows of
\* the other partitions are not in the batch.
C25_PartitionsIndependent ==
    Returned =>
        /\ \A k \in SessionIds :
              \A m \in 1..Len(sessions[k].conversations) :
                 SamePartition(sessions[k], df_sorted[sessions[k].conversations[m]])
        /\ (prev.kind = "partition" /\ df_sorted # <<>>) =>
              Content(sessions, df_sorted) =
                 OfPartition(prev.content, df_sorted[1])

\* The second call has returned the one session of room 102; the first call
\* had a session of room 101 before it, whose window holds the row of 102.
C25_Witness ==
    /\ Returned
    /\ prev.kind = "partition"
    /\ Len(prev.content) = 2
    /\ prev.content[1].room = 101
    /\ prev.content[2].room = 102
    /\ Len(sessions) = 1
    /\ sessions[1].room = 102
    /\ prev.content[1].start_time <= df_sorted[1].ts
    /\ df_sorted[1].ts < prev.content[1].end_time

\* The partitions of the batch in hand that have no row in the gap period.
Window(c) == [start_time |-> c.start_time, end_time |-> c.end_time,
              stamps |-> c.stamps]

Windows(content) == [k \in 1..Len(content) |-> Window(content[k])]

GapFree(g) ==
    \A i \in RowIds :
        SamePartition(df_sorted[i], g) => ~InGapWindow(df_sorted[i].ts)

\* C30 (as claimed): for a partition without a row in the gap period the
\* three gap policies return the same sequence of (start, end,
\* conversations), also when checkout >= checkin.
C30_PoliciesAgreeWithoutGapRows ==
    (Returned /\ prev.kind = "mode") =>
        \A i \in RowIds :
            GapFree(df_sorted[i]) =>
                Windows(OfPartition(Content(sessions, df_sorted), df_sorted[i])) =
                Windows(OfPartition(prev.content, df_sorted[i]))

(***************************************************************************)
(* The export button of the dashboard (app.py): the stored records, the    *)
(* room filter, the timezone selected for the report, convert_timezone,    *)
(* and export_to_file, which segments what it is handed with the           *)
(* check-in and check-out times of the page and the default gap policy.    *)
(***************************************************************************)

MaxClicks == 2

ExportZones == {"Asia/Taipei", "UTC", "America/New_York"}

\* request_timestamp values of the stored records (hotel time, UTC+8).
ExportStamps == {Combine(Jan15, 10), Combine(Jan15, 15), Combine(Jan15 + 1, 10)}

\* self.df after loading.
ExportFrames ==
    UNION {{Frame([i \in 1..n |->
                     [id |-> i, hotel |-> 1, room |-> f[i][1], ts |-> f[i][2]]]) :
               f \in [1..n -> Rooms \X ExportStamps]} : n \in 0..MaxStored}

\* The room multiselect of the sidebar: nothing selected, or room 101.
RoomFilters == {{}, {101}}

\* dst_override of the page: None unless the zone is one of the three the
\* page lists, else the choice of the radio.
DstChoices(zone) ==
    IF zone \in DstZones THEN {AutoMode, ForceDst, ForceStandard}
    ELSE {NoOverride}

\* DataProcessor.filter_data with the room filter (the other filters unset)
filter_data(df, room_names) ==
    IF df.none THEN Frame(<<>>)
    ELSE IF room_names # {}
         THEN Frame(SelectSeq(df.rows, LAMBDA r : r.room \in room_names))
    ELSE copy(df)

\* DataProcessor.convert_timezone: the value it returns
convert_timezone(df, source_timezone, target_timezone, dst_override, fold) ==
    LET source_tz == pytz_timezone(source_timezone)
        target_tz == pytz_timezone(target_timezone)
    IN  IF df.none THEN NoneFrame
        ELSE IF source_tz = UnknownTimeZoneError \/ target_tz = UnknownTimeZoneError
             THEN copy(df)
        ELSE Frame([i \in 1..Len(df.rows) |->
                 [df.rows[i] EXCEPT !.ts =
                     convert_single_timestamp_with_override(
                         @, source_tz, target_tz, dst_override, fold)]])

\* The frame the button hands to export_to_file (app.py lines 508-521).
export_df(df, room_names, zone, dst_override, fold) ==
    LET filtered_df == filter_data(df, room_names)
        converted_df == convert_timezone(df, "Asia/Taipei", zone, dst_override, fold)
    IN  IF zone # "Asia/Taipei"
        THEN IF ~takes_warning_branch(converted_df) THEN converted_df
             ELSE filtered_df
        ELSE filtered_df

\* The records of each session of the export in hand.
Groups ==
    {{df_sorted[sessions[k].conversations[m]].id :
         m \in 1..Len(sessions[k].conversations)} : k \in SessionIds}

ExportInit ==
    /\ SegOff /\ NormOff /\ ConvOff /\ AlarmOff /\ ReportOff /\ RunOff
    /\ self_df \in ExportFrames
    /\ returned = NoneFrame
    /\ tz_args = <<>>
    /\ tz_failed = FALSE
    /\ ui \in [checkin_time : CheckTimes, checkout_time : CheckTimes,
               room_names : RoomFilters]
    /\ selected_timezone = "Asia/Taipei"
    /\ clicks = 0
    /\ last_export = NoExport

\* The export button: app.py lines 504-532 and export_to_file up to the
\* call of segment_by_stay_sessions.
ExportClick ==
    /\ pc \in {"idle", "done"}
    /\ clicks < MaxClicks
    /\ \E zone \in ExportZones :
          \E dst_override \in DstChoices(zone) :
              /\ Enter(export_df(self_df, ui.room_names, zone, dst_override,
                                 fold_dst).rows,
                       ui.checkin_time, ui.checkout_time, MERGE)
              /\ selected_timezone' = zone
    /\ clicks' = clicks + 1
    /\ last_export' = IF clicks = 0 THEN NoExport
                      ELSE [zone |-> selected_timezone, groups |-> Groups]
    /\ UNCHANGED <<ui, normVars, tzVars, convVars, alarmVars, reportVars, runVars>>

ExportNext ==
    \/ ExportClick
    \/ NextGroup
    \/ RowStep
    \/ RoomFlush
    \/ Return

SpecExport == ExportInit /\ [][ExportNext]_vars

Exported == UNION Groups

ExportedBefore == UNION last_export.groups

InOneGroup(groups, a, b) == \E g \in groups : a \in g /\ b \in g

\* C26 (as claimed): two records exported both times are in the same
\* session of this export if and only if they were in the same session of
\* the export before it, whatever the two timezones selected.
C26_GroupingIgnoresTimezone ==
    (Returned /\ last_export # NoExport) =>
        \A a \in Exported \cap ExportedBefore :
            \A b \in Exported \cap ExportedBefore :
                InOneGroup(Groups, a, b) <=> InOneGroup(last_export.groups, a, b)

\* C28 (as claimed): the records of an export are exactly the stored
\* records that pass the filter of the page, whichever timezone is selected.
C28_ExportsFilteredRecords ==
    (Returned /\ clicks >= 1) =>
        Exported = {r.id : r \in
                       {filter_data(self_df, ui.room_names).rows[i] :
                           i \in 1..Len(filter_data(self_df, ui.room_names).rows)}}
====
